---- MODULE Spec2Model ----
(***************************************************************************)
(* torchbearer/callbacks/init.py: the WeightInit callback and its named    *)
(* variants.  A callback holds an initialiser, an optional collection of   *)
(* modules and a list of target strings; on_init resolves the collection   *)
(* from the model when none was given, then calls the initialiser on every *)
(* module whose class name contains one of the targets.                    *)
(*                                                                         *)
(* Strings are sequences of one-character strings, so that Python's        *)
(* `target in name` is computed on the characters.                         *)
(***************************************************************************)
EXTENDS Integers, Sequences, FiniteSets, TLC

\* Longest explicit module collection handed to a constructor.
MaxModules == 2
\* Longest non-default target list handed to a constructor.
MaxTargets == 2
\* Number of on_init invocations made on one callback instance.
MaxInvocations == 2

(***************************************************************************)
(* Strings                                                                 *)
(***************************************************************************)
Conv == <<"C", "o", "n", "v">>
Linear == <<"L", "i", "n", "e", "a", "r">>
Bilinear == <<"B", "i", "l", "i", "n", "e", "a", "r">>
TwoD == <<"2", "d">>
Conv2d == <<"C", "o", "n", "v", "2", "d">>
ReLU == <<"R", "e", "L", "U">>
ConvBlock == <<"C", "o", "n", "v", "B", "l", "o", "c", "k">>

\* targets=['Conv', 'Linear', 'Bilinear'], the default of every constructor
DefaultTargets == <<Conv, Linear, Bilinear>>

(***************************************************************************)
(* The modules of the heap.  Each handle is one nn.Module object: its      *)
(* class name, and whether it carries a weight / bias parameter tensor.    *)
(* A plain nn.Module is not iterable.                                      *)
(***************************************************************************)
Handles == 1 .. 7

\* m.__class__.__name__
ClassName(m) ==
    CASE m = 1 -> Conv2d
      [] m = 2 -> Linear
      [] m = 3 -> ReLU
      [] m = 4 -> Bilinear
      [] m = 5 -> ConvBlock
      [] m = 6 -> Linear
      [] OTHER -> Conv2d

\* whether `module.weight.data` evaluates (the module has a weight tensor)
HasWeight(m) == m \in {1, 2, 4, 6, 7}

\* whether `module.bias.data` evaluates (the module has a bias tensor)
HasBias(m) == m \in {1, 2, 4, 6, 7}

\* the bias tensors before any initialisation
InitBias ==
    [m \in Handles |->
        CASE m = 1 -> <<1, 2, -3>>
          [] m = 2 -> <<4, 5>>
          [] m = 4 -> <<-6>>
          [] m = 6 -> <<7, 0>>
          [] m = 7 -> <<8>>
          [] OTHER -> <<>>]

\* a weight tensor is described by the routine that last filled it and the
\* hyperparameters that routine was called with ("orig": never filled)
Fill(routine, a, mode, nonlinearity, gain) ==
    [routine |-> routine, a |-> a, mode |-> mode,
     nonlinearity |-> nonlinearity, gain |-> gain]

OrigWeight == Fill("orig", -1, "-", "-", -1)

InitWeight == [m \in Handles |-> OrigWeight]

(***************************************************************************)
(* Models: state[torchbearer.MODEL].  modules() of a torch model returns a *)
(* one-pass generator ("gen"); a model may also return a list ("list"), or *)
(* have no modules method at all ("none").                                 *)
(***************************************************************************)
Models == {"A", "AList", "B", "Bare"}

EnumKind(model) ==
    CASE model = "A" -> "gen"
      [] model = "AList" -> "list"
      [] model = "B" -> "gen"
      [] OTHER -> "none"

ModulesOf(model) ==
    CASE model = "A" -> <<1, 2, 3, 4>>
      [] model = "AList" -> <<1, 2, 3, 4>>
      [] model = "B" -> <<6, 5, 7>>
      [] OTHER -> <<>>

States == [MODEL : Models]

\* the modules an explicit collection is built from
ExplicitHandles == {1, 3, 5}

(***************************************************************************)
(* Collections: the value of the `modules` field.                          *)
(***************************************************************************)
None == [kind |-> "None", items |-> <<>>]

SeqsUpTo(S, n) == UNION {[1 .. k -> S] : k \in 0 .. n}

\* modules=None, a list, a one-pass iterable, or a single nn.Module
Collections ==
    {None}
    \cup {[kind |-> k, items |-> s] :
            k \in {"list", "gen"}, s \in SeqsUpTo(ExplicitHandles, MaxModules)}
    \cup {[kind |-> "single", items |-> <<m>>] : m \in ExplicitHandles}

TargetStrings == {Conv, Linear, TwoD}

TargetLists == {DefaultTargets} \cup SeqsUpTo(TargetStrings, MaxTargets)

(***************************************************************************)
(* Constructors                                                            *)
(***************************************************************************)
\* an initialiser closure: the function it runs and the values it captured
Closure(fn, a, mode, nonlinearity, gain) ==
    [fn |-> fn, a |-> a, mode |-> mode, nonlinearity |-> nonlinearity,
     gain |-> gain]

\* lambda module: module
Identity == Closure("identity", -1, "-", "-", -1)

WeightInit(init, mods, tgts) ==
    [initialiser |-> init, modules |-> mods, targets |-> tgts]

KaimingNormal(a, mode, nonlinearity, mods, tgts) ==
    WeightInit(Closure("kaiming_normal_", a, mode, nonlinearity, -1), mods, tgts)

KaimingUniform(a, mode, nonlinearity, mods, tgts) ==
    WeightInit(Closure("kaiming_uniform_", a, mode, nonlinearity, -1), mods, tgts)

XavierNormal(gain, mods, tgts) ==
    WeightInit(Closure("xavier_normal_", -1, "-", "-", gain), mods, tgts)

\* mutant of XavierUniform: the gain is not forwarded, the routine's default is used
XavierUniformDefaultGain(gain, mods, tgts) ==
    WeightInit(Closure("xavier_uniform_", -1, "-", "-", 1), mods, tgts)

XavierUniform(gain, mods, tgts) ==
    WeightInit(Closure("xavier_uniform_", -1, "-", "-", gain), mods, tgts)

ZeroBias(mods, tgts) ==
    WeightInit(Closure("zero_bias", -1, "-", "-", -1), mods, tgts)

\* a constructor call: the class constructed, the hyperparameters passed to
\* it, and the callback object it returns
Construction(cls, a, mode, nonlinearity, gain, obj) ==
    [cls |-> cls, a |-> a, mode |-> mode, nonlinearity |-> nonlinearity,
     gain |-> gain, obj |-> obj]

VARIABLES
    ctor,          \* the constructor call that built the callback: class, hyperparameters
    initialiser,   \* self.initialiser
    modules,       \* self.modules
    targets,       \* self.targets
    pos,           \* number of items the collection in self.modules has yielded so far
                   \* (a one-pass iterable resumes from there)
    weight,        \* weight tensor of each module
    bias,          \* bias tensor of each module
    calls,         \* initialiser calls made: <<invocation, module>>
    ext,           \* torch.nn.init routine calls: [inv, m, fill]
    tests,         \* `target in name` tests made: <<invocation, module, index of target>>
    hist           \* one record per on_init invocation: the model read from the
                   \* state (if any), the field and position at entry, the outcome

vars == <<ctor, initialiser, modules, targets, pos, weight, bias, calls, ext, tests, hist>>

(***************************************************************************)
(* on_init                                                                 *)
(***************************************************************************)
\* mutant of In: name.startswith(target)
InPrefix(target, name) ==
    /\ Len(target) <= Len(name)
    /\ SubSeq(name, 1, Len(target)) = target

\* target in m.__class__.__name__
In(target, name) ==
    \E i \in 1 .. (Len(name) - Len(target) + 1) :
        SubSeq(name, i, i + Len(target) - 1) = target

\* list(filter(lambda target: target in m.__class__.__name__, self.targets))
Filtered(m) == SelectSeq(targets, LAMBDA target : In(target, ClassName(m)))

\* mutant of Tested: any(...) instead of len(list(filter(...))) > 0, which
\* stops at the first target found in the name
TestedUntilMatch(m) ==
    LET hits == {k \in 1 .. Len(targets) : In(targets[k], ClassName(m))}
        last == IF hits = {} THEN Len(targets)
                ELSE CHOOSE k \in hits : \A h \in hits : k <= h
    IN [k \in 1 .. last |-> k]

\* the indices of the targets the filter tests for one module, in order
Tested(m) == [k \in 1 .. Len(targets) |-> k]

\* mutant of Resolve: the model is asked for its modules at every invocation
ResolveAlways(state) ==
    IF EnumKind(state.MODEL) = "none"
    THEN [field |-> modules, read |-> TRUE, err |-> "AttributeError"]
    ELSE [field |-> [kind |-> EnumKind(state.MODEL),
                     items |-> ModulesOf(state.MODEL)],
          read |-> TRUE, err |-> "ok"]

\* if self.modules is None: self.modules = state[torchbearer.MODEL].modules()
Resolve(state) ==
    IF modules.kind = "None"
    THEN IF EnumKind(state.MODEL) = "none"
         THEN [field |-> modules, read |-> TRUE, err |-> "AttributeError"]
         ELSE [field |-> [kind |-> EnumKind(state.MODEL),
                          items |-> ModulesOf(state.MODEL)],
               read |-> TRUE, err |-> "ok"]
    ELSE [field |-> modules, read |-> FALSE, err |-> "ok"]

\* mutant of IterItems: every collection is used up by iterating it
IterItemsOnePass(field, p) == SubSeq(field.items, p + 1, Len(field.items))

\* what `for m in self.modules` yields: a list yields all its items every
\* time, a one-pass iterable the items it has not yielded yet
IterItems(field, p) ==
    IF field.kind = "gen"
    THEN SubSeq(field.items, p + 1, Len(field.items))
    ELSE field.items

\* mutant of ZeroBiasInitialiser: module.weight.data.zero_()
ZeroWeightInitialiser(m, acc) ==
    IF HasWeight(m)
    THEN [acc EXCEPT !.weight[m] = Fill("zero_", -1, "-", "-", -1)]
    ELSE [acc EXCEPT !.outcome = "AttributeError"]

\* module.bias.data.zero_()
ZeroBiasInitialiser(m, acc) ==
    IF HasBias(m)
    THEN [acc EXCEPT !.bias[m] = [i \in DOMAIN @ |-> 0]]
    ELSE [acc EXCEPT !.outcome = "AttributeError"]

\* init.<routine>(module.weight.data, ...) with the captured hyperparameters
WeightInitialiser(m, acc) ==
    IF HasWeight(m)
    THEN LET fill == Fill(initialiser.fn, initialiser.a, initialiser.mode,
                          initialiser.nonlinearity, initialiser.gain)
         IN [acc EXCEPT !.weight[m] = fill,
                        !.ext = Append(@, [inv |-> acc.inv, m |-> m, fill |-> fill])]
    ELSE [acc EXCEPT !.outcome = "AttributeError"]

\* self.initialiser(m)
CallInitialiser(m, acc) ==
    LET called == [acc EXCEPT !.calls = Append(@, <<acc.inv, m>>)]
    IN CASE initialiser.fn = "identity" -> called
         [] initialiser.fn = "zero_bias" -> ZeroBiasInitialiser(m, called)
         [] OTHER -> WeightInitialiser(m, called)

\* mutant of Visit: the initialiser is called once per target found in the name
RECURSIVE CallTimes(_, _, _)
CallTimes(n, m, acc) ==
    IF n = 0 \/ acc.outcome # "running" THEN acc
    ELSE CallTimes(n - 1, m, CallInitialiser(m, acc))

VisitPerTarget(m, acc) ==
    CallTimes(Len(Filtered(m)), m,
              [acc EXCEPT
                 !.tests = @ \o [k \in DOMAIN Tested(m) |->
                                    <<acc.inv, m, Tested(m)[k]>>],
                 !.consumed = @ + 1])

\* the body of the loop for one module
Visit(m, acc) ==
    LET tested == [acc EXCEPT
                     !.tests = @ \o [k \in DOMAIN Tested(m) |->
                                        <<acc.inv, m, Tested(m)[k]>>],
                     !.consumed = @ + 1]
    IN IF Len(Filtered(m)) > 0 THEN CallInitialiser(m, tested) ELSE tested

\* mutant of Continues: a failure of the initialiser is swallowed
ContinuesAlways(acc) == TRUE

\* whether the loop goes on to the next module after one module's body
Continues(acc) == acc.outcome = "running"

\* for m in self.modules: ...
RECURSIVE Loop(_, _)
Loop(items, acc) ==
    IF items = <<>>
    THEN [acc EXCEPT !.outcome = "ok"]
    ELSE LET next == Visit(Head(items), acc)
         IN IF Continues(next) THEN Loop(Tail(items), next) ELSE next

OnInit(state) ==
    /\ Len(hist) < MaxInvocations
    /\ LET r == Resolve(state)
           acc == [inv |-> Len(hist) + 1, calls |-> calls, ext |-> ext,
                   tests |-> tests, weight |-> weight, bias |-> bias,
                   outcome |-> "running", consumed |-> 0]
           res == IF r.err # "ok" THEN [acc EXCEPT !.outcome = r.err]
                  ELSE IF r.field.kind = "single"
                       THEN [acc EXCEPT !.outcome = "TypeError"]
                       ELSE Loop(IterItems(r.field, pos), acc)
       IN /\ modules' = r.field
          /\ pos' = pos + res.consumed
          /\ weight' = res.weight
          /\ bias' = res.bias
          /\ calls' = res.calls
          /\ ext' = res.ext
          /\ tests' = res.tests
          /\ hist' = Append(hist, [model |-> IF r.read THEN state.MODEL ELSE "unread",
                                   entry |-> modules, entrypos |-> pos,
                                   outcome |-> res.outcome])
    /\ UNCHANGED <<ctor, initialiser, targets>>

Next == \E state \in States : OnInit(state)

InitWith(constructions) ==
    /\ \E c \in constructions :
          /\ ctor = [cls |-> c.cls, a |-> c.a, mode |-> c.mode,
                     nonlinearity |-> c.nonlinearity, gain |-> c.gain]
          /\ initialiser = c.obj.initialiser
          /\ modules = c.obj.modules
          /\ targets = c.obj.targets
    /\ pos = 0
    /\ weight = InitWeight
    /\ bias = InitBias
    /\ calls = <<>>
    /\ ext = <<>>
    /\ tests = <<>>
    /\ hist = <<>>

\* the base class with its default initialiser, and ZeroBias
BaseCallbacks ==
    {Construction("WeightInit", -1, "-", "-", -1, WeightInit(Identity, mods, tgts)) :
        mods \in Collections, tgts \in TargetLists}
    \cup {Construction("ZeroBias", -1, "-", "-", -1, ZeroBias(mods, tgts)) :
        mods \in Collections, tgts \in TargetLists}

Init == InitWith(BaseCallbacks)

Spec == Init /\ [][Next]_vars

\* the four named variants, over the hyperparameter values below
Slopes == {0, 1}
Modes == {"fan_in", "fan_out"}
Nonlinearities == {"leaky_relu", "relu"}
Gains == {1, 2}

VariantTargetLists == {DefaultTargets, <<TwoD>>, <<>>}

VariantCallbacks ==
    {Construction("KaimingNormal", a, mode, nl, -1,
                  KaimingNormal(a, mode, nl, mods, tgts)) :
        a \in Slopes, mode \in Modes, nl \in Nonlinearities,
        mods \in Collections, tgts \in VariantTargetLists}
    \cup {Construction("KaimingUniform", a, mode, nl, -1,
                       KaimingUniform(a, mode, nl, mods, tgts)) :
        a \in Slopes, mode \in Modes, nl \in Nonlinearities,
        mods \in Collections, tgts \in VariantTargetLists}
    \cup {Construction("XavierNormal", -1, "-", "-", gain,
                       XavierNormal(gain, mods, tgts)) :
        gain \in Gains, mods \in Collections, tgts \in VariantTargetLists}
    \cup {Construction("XavierUniform", -1, "-", "-", gain,
                       XavierUniform(gain, mods, tgts)) :
        gain \in Gains, mods \in Collections, tgts \in VariantTargetLists}

InitVariants == InitWith(VariantCallbacks)

SpecVariants == InitVariants /\ [][Next]_vars

(***************************************************************************)
(* Vocabulary of the properties                                            *)
(***************************************************************************)
\* t occurs in s as a contiguous block: at some offset i, s[i+1 .. i+Len(t)] is t
SubstringOf(t, s) ==
    \E i \in 0 .. (Len(s) - Len(t)) : \A k \in 1 .. Len(t) : s[i + k] = t[k]

\* some target of the callback is a substring of m's class name
Matched(m) == \E k \in DOMAIN targets : SubstringOf(targets[k], ClassName(m))

Range(s) == {s[i] : i \in DOMAIN s}

Invocations == DOMAIN hist

\* the collection invocation k iterates: the field at entry, or the model's
\* enumeration when the field was None
CollectionOf(k) ==
    IF hist[k].entry.kind = "None"
    THEN [kind |-> EnumKind(hist[k].model), items |-> ModulesOf(hist[k].model)]
    ELSE hist[k].entry

\* the modules that collection hands to the loop of invocation k, in order
Yielded(k) ==
    LET c == CollectionOf(k)
    IN CASE c.kind = "list" -> c.items
         [] c.kind = "gen" ->
              [i \in 1 .. (Len(c.items) - hist[k].entrypos) |->
                  c.items[hist[k].entrypos + i]]
         [] OTHER -> <<>>

\* the initialiser calls of invocation k, in order, and as a set of modules
CallSeq(k) ==
    LET mine == SelectSeq(calls, LAMBDA c : c[1] = k)
    IN [i \in DOMAIN mine |-> mine[i][2]]

CalledIn(k) == Range(CallSeq(k))

CountCalls(k, m) == Cardinality({i \in DOMAIN calls : calls[i] = <<k, m>>})

Occurrences(s, m) == Cardinality({i \in DOMAIN s : s[i] = m})

Completed(k) == hist[k].outcome = "ok"

AllZero(t) == \A i \in DOMAIN t : t[i] = 0

(***************************************************************************)
(* C1                                                                      *)
(***************************************************************************)
\* C1: an invocation of on_init that completes applies the initialiser to
\* exactly the modules of the iterated collection whose class name contains
\* some target as a substring (anywhere in the name, not only as a prefix or
\* as the whole name).
C1_InitialisedSetIsMatchedSet ==
    \A k \in Invocations :
        Completed(k) =>
            CalledIn(k) = {m \in Range(Yielded(k)) : Matched(m)}

\* the default-targets scenario: Conv2d, Linear, ReLU, Bilinear under
\* ['Conv', 'Linear', 'Bilinear'] - all but ReLU are initialised
C1_Witness ==
    /\ targets = DefaultTargets
    /\ Len(hist) >= 1
    /\ Completed(1)
    /\ Yielded(1) = <<1, 2, 3, 4>>
    /\ CalledIn(1) = {1, 2, 4}

(***************************************************************************)
(* C2                                                                      *)
(***************************************************************************)
\* C2 as stated: after an invocation that completes, every yielded module
\* that matches has had the initialiser applied exactly once in it, every
\* other module zero times.
C2_ExactlyOncePerModule ==
    \A k \in Invocations :
        Completed(k) =>
            \A m \in Handles :
                CountCalls(k, m) =
                    IF m \in Range(Yielded(k)) /\ Matched(m) THEN 1 ELSE 0

\* C2 amended: after an invocation that completes, the initialiser has been
\* applied to every matching module once per occurrence of the module in the
\* iterated collection (so exactly once when the handles are distinct,
\* however many targets match), and zero times to every other module.
C2_OncePerOccurrence ==
    \A k \in Invocations :
        Completed(k) =>
            \A m \in Handles :
                CountCalls(k, m) =
                    IF Matched(m) THEN Occurrences(Yielded(k), m) ELSE 0

\* a handle occurring twice, matched by two targets at once, initialised twice
C2_Witness ==
    /\ Len(hist) >= 1
    /\ Completed(1)
    /\ Yielded(1) = <<1, 1>>
    /\ Cardinality({k \in DOMAIN targets : SubstringOf(targets[k], ClassName(1))}) = 2
    /\ CountCalls(1, 1) = 2

(***************************************************************************)
(* C3                                                                      *)
(***************************************************************************)
\* the first invocation resolved the collection from a model with modules()
ResolvedFirst ==
    /\ Len(hist) >= 1
    /\ hist[1].entry.kind = "None"
    /\ EnumKind(hist[1].model) # "none"

MatchedOf(model) == {m \in Range(ModulesOf(model)) : Matched(m)}

\* C3 as stated: built with modules=None and invoked twice, the callback
\* applies the initialiser to the first model's matched modules in both
\* invocations and to no module outside the first model.
C3_FirstModelBothTimes ==
    (ResolvedFirst /\ Len(hist) >= 2 /\ Completed(1)) =>
        /\ CalledIn(1) = MatchedOf(hist[1].model)
        /\ CalledIn(2) = MatchedOf(hist[1].model)
        /\ Range(calls) \subseteq Invocations \X Range(ModulesOf(hist[1].model))

\* C3 amended: built with modules=None and invoked twice, the callback never
\* applies the initialiser to a module outside the first model, and the
\* second invocation iterates the collection the first one stored.  When the
\* first invocation completes it has initialised the first model's matched
\* modules; the second invocation initialises them again only if modules()
\* returned a re-iterable collection, and initialises nothing if it returned
\* a one-pass enumeration, which the first invocation has used up.
C3_FirstModelCollectionReused ==
    (ResolvedFirst /\ Len(hist) >= 2) =>
        /\ Range(calls) \subseteq Invocations \X Range(ModulesOf(hist[1].model))
        /\ \A k \in Invocations \ {1} :
              /\ hist[k].entry = [kind |-> EnumKind(hist[1].model),
                                  items |-> ModulesOf(hist[1].model)]
              /\ hist[k].model = "unread"
        /\ Completed(1) =>
              /\ CalledIn(1) = MatchedOf(hist[1].model)
              /\ \A k \in Invocations \ {1} :
                    CalledIn(k) = IF EnumKind(hist[1].model) = "list"
                                  THEN MatchedOf(hist[1].model) ELSE {}

\* model A's generator: initialised at the first invocation, spent at the second
C3_Witness ==
    /\ ResolvedFirst
    /\ Len(hist) = 2
    /\ hist[1].model = "A"
    /\ Completed(1) /\ Completed(2)
    /\ CalledIn(1) = {1, 2, 4}
    /\ CalledIn(2) = {}

(***************************************************************************)
(* C4                                                                      *)
(***************************************************************************)
\* C4: a callback built with a single module whose class name contains a
\* target completes on_init and applies the initialiser to that module.
C4_SingleModuleInitialised ==
    \A k \in Invocations :
        (hist[k].entry.kind = "single" /\ Matched(hist[k].entry.items[1])) =>
            /\ Completed(k)
            /\ hist[k].entry.items[1] \in CalledIn(k)

(***************************************************************************)
(* C5                                                                      *)
(***************************************************************************)
\* C5: ZeroBias never changes a weight, and changes a bias only to zeros of
\* the same length and only on a module of the collection that matches a
\* target; after an invocation that completes, every module of the
\* collection that matches has an all-zero bias.
C5_ZeroBiasFrame ==
    ctor.cls = "ZeroBias" =>
        /\ \A m \in Handles :
              /\ weight[m] = InitWeight[m]
              /\ Len(bias[m]) = Len(InitBias[m])
              /\ bias[m] # InitBias[m] =>
                    /\ AllZero(bias[m])
                    /\ Matched(m)
                    /\ m \in Range(modules.items)
        /\ \A k \in Invocations :
              Completed(k) =>
                  \A m \in Range(CollectionOf(k).items) :
                      IF Matched(m) THEN AllZero(bias[m])
                      ELSE bias[m] = InitBias[m]

\* bias [1, 2, -3] has become [0, 0, 0], the weight and the unmatched ReLU are as before
C5_Witness ==
    /\ ctor.cls = "ZeroBias"
    /\ Len(hist) >= 1
    /\ Completed(1)
    /\ Yielded(1) = <<1, 2, 3, 4>>
    /\ InitBias[1] = <<1, 2, -3>>
    /\ bias[1] = <<0, 0, 0>>
    /\ weight[1] = InitWeight[1]
    /\ ~Matched(3)
    /\ bias[3] = InitBias[3]

(***************************************************************************)
(* C6                                                                      *)
(***************************************************************************)
\* the torch.nn.init routine each named variant is documented to use
RoutineOf(cls) ==
    CASE cls = "KaimingNormal" -> "kaiming_normal_"
      [] cls = "KaimingUniform" -> "kaiming_uniform_"
      [] cls = "XavierNormal" -> "xavier_normal_"
      [] cls = "XavierUniform" -> "xavier_uniform_"
      [] OTHER -> "none"

ExtIn(k) == {ext[i].m : i \in {i \in DOMAIN ext : ext[i].inv = k}}

\* the hyperparameters the constructor was given, as the routine must see them
ExpectedFill ==
    Fill(RoutineOf(ctor.cls), ctor.a, ctor.mode, ctor.nonlinearity, ctor.gain)

\* every call to the numerical library is to the variant's own routine, on
\* the weight of a matching module the loop was handed, with the
\* constructor's hyperparameters; no bias and no other weight is touched
OnlyOwnRoutine ==
    /\ \A i \in DOMAIN ext :
          /\ ext[i].fill = ExpectedFill
          /\ ext[i].inv \in Invocations
          /\ Matched(ext[i].m)
          /\ ext[i].m \in Range(Yielded(ext[i].inv))
    /\ \A m \in Handles :
          /\ bias[m] = InitBias[m]
          /\ weight[m] = IF \E i \in DOMAIN ext : ext[i].m = m
                         THEN ExpectedFill ELSE InitWeight[m]

\* C6 as stated: every call a named variant makes is to its own routine with
\* the constructor's hyperparameters, on a matching module and no other, and
\* every invocation that completes has made that call for every matching
\* module of the callback's collection.
C6_EveryMatchedEveryInvocation ==
    /\ OnlyOwnRoutine
    /\ \A k \in Invocations :
          Completed(k) =>
              ExtIn(k) = {m \in Range(CollectionOf(k).items) : Matched(m)}

\* C6 amended: every call a named variant makes is to its own routine with
\* the constructor's hyperparameters, on a matching module and no other.  An
\* invocation that completes has made that call for every matching module of
\* the collection when the collection is a list, or a one-pass enumeration
\* iterated for the first time; on a one-pass enumeration iterated before,
\* it has made the call only for the matching modules not yielded yet, so
\* for none when an earlier invocation completed.
C6_RoutineAndHyperparameters ==
    /\ OnlyOwnRoutine
    /\ \A k \in Invocations :
          Completed(k) =>
              LET c == CollectionOf(k)
                  rest == {c.items[i] : i \in (hist[k].entrypos + 1) .. Len(c.items)}
              IN IF c.kind = "gen"
                 THEN /\ ExtIn(k) = {m \in rest : Matched(m)}
                      /\ (k = 1 \/ hist[k].entry.kind = "None") =>
                            ExtIn(k) = {m \in Range(c.items) : Matched(m)}
                      /\ (k > 1 /\ hist[k].entry.kind # "None" /\ Completed(k - 1)) =>
                            ExtIn(k) = {}
                 ELSE ExtIn(k) = {m \in Range(c.items) : Matched(m)}

\* XavierUniform(gain=2) on model A: the sampler is called with gain 2 on
\* Conv2d, Linear, Bilinear at the first invocation, and on nothing at the
\* second, which finds the enumeration used up
C6_Witness ==
    /\ ctor.cls = "XavierUniform"
    /\ ctor.gain = 2
    /\ Len(hist) = 2
    /\ hist[1].model = "A"
    /\ Completed(1) /\ Completed(2)
    /\ Yielded(1) = <<1, 2, 3, 4>>
    /\ ExtIn(1) = {1, 2, 4}
    /\ ExtIn(2) = {}
    /\ \A i \in DOMAIN ext :
          ext[i].fill.routine = "xavier_uniform_" /\ ext[i].fill.gain = 2

(***************************************************************************)
(* C7                                                                      *)
(***************************************************************************)
\* the initialiser of the callback cannot run on m: the attribute it reads is missing
Fails(m) ==
    \/ ctor.cls = "ZeroBias" /\ ~HasBias(m)
    \/ ctor.cls \in {"KaimingNormal", "KaimingUniform", "XavierNormal", "XavierUniform"}
          /\ ~HasWeight(m)

\* positions of the iterated collection where the initialiser is called and fails
FailuresIn(k) == {j \in DOMAIN Yielded(k) : Matched(Yielded(k)[j]) /\ Fails(Yielded(k)[j])}

\* the number of modules the loop of invocation k gets to
Visited(k) ==
    IF FailuresIn(k) = {} THEN Len(Yielded(k))
    ELSE CHOOSE j \in FailuresIn(k) : \A f \in FailuresIn(k) : j <= f

MatchedPrefix(k) ==
    SelectSeq(SubSeq(Yielded(k), 1, Visited(k)), LAMBDA m : Matched(m))

\* C7: a failure is the outcome of on_init.  If the model has no modules()
\* the invocation fails before any initialiser call and the field stays
\* None.  If the initialiser fails on a matching module, the invocation ends
\* with that failure; its initialiser calls are those on the matching modules
\* up to and including the failing one, in order, and none after it.  A bias
\* is changed only by a call, and a call that succeeded has left it zero.
C7_FailureEndsInvocation ==
    /\ \A k \in Invocations :
          IF hist[k].entry.kind = "None" /\ EnumKind(hist[k].model) = "none"
          THEN /\ hist[k].outcome = "AttributeError"
               /\ CallSeq(k) = <<>>
               /\ IF k + 1 \in Invocations THEN hist[k + 1].entry = None
                  ELSE modules = None
          ELSE CollectionOf(k).kind \in {"list", "gen"} =>
                  /\ hist[k].outcome =
                        IF FailuresIn(k) = {} THEN "ok" ELSE "AttributeError"
                  /\ CallSeq(k) = MatchedPrefix(k)
    /\ \A m \in Handles :
          /\ bias[m] # InitBias[m] => \E k \in Invocations : m \in CalledIn(k)
          /\ (ctor.cls = "ZeroBias" /\ \E k \in Invocations : m \in CalledIn(k))
                => AllZero(bias[m])

\* model B under ZeroBias: Linear is zeroed, ConvBlock has no bias and fails,
\* the Conv2d after it keeps its bias
C7_Witness ==
    /\ ctor.cls = "ZeroBias"
    /\ Len(hist) >= 1
    /\ Yielded(1) = <<6, 5, 7>>
    /\ hist[1].outcome = "AttributeError"
    /\ CallSeq(1) = <<6, 5>>
    /\ bias[6] = <<0, 0>>
    /\ Matched(7)
    /\ bias[7] = InitBias[7]

(***************************************************************************)
(* C8                                                                      *)
(***************************************************************************)
\* C8: every on_init step leaves initialiser and targets as they are, reads
\* the model only if modules is None when it starts, and changes modules
\* only from None to the collection obtained from the model it read.
C8_FieldSetOnce ==
    [][LET h == hist'[Len(hist')]
       IN /\ initialiser' = initialiser
          /\ targets' = targets
          /\ h.model # "unread" => modules.kind = "None"
          /\ modules' # modules =>
                /\ modules.kind = "None"
                /\ h.model # "unread"
                /\ modules' = [kind |-> EnumKind(h.model),
                               items |-> ModulesOf(h.model)]
                /\ modules'.kind # "None"
          /\ (modules.kind = "None" /\ EnumKind(h.model) # "none") =>
                modules' # modules]_vars

\* resolved from model B at the first invocation, kept and not re-read at the second
C8_Witness ==
    /\ Len(hist) = 2
    /\ hist[1].entry = None
    /\ hist[1].model = "B"
    /\ hist[2].entry = [kind |-> "gen", items |-> ModulesOf("B")]
    /\ hist[2].model = "unread"
    /\ modules = hist[2].entry

(***************************************************************************)
(* C9                                                                      *)
(***************************************************************************)
\* two successive invocations that iterate the same collection object
SameCollection(k) == k + 1 \in Invocations /\ hist[k + 1].entry.kind # "None"

\* C9 as stated: two successive invocations over the same collection apply
\* the initialiser to the same set of modules, whatever the kind of iterable.
C9_SameSetTwice ==
    \A k \in Invocations :
        SameCollection(k) => CalledIn(k) = CalledIn(k + 1)

\* C9 amended: two successive invocations over the same collection make the
\* same initialiser calls when the collection can be iterated again (a
\* list); when it is a one-pass enumeration, the second invocation is left
\* with the modules the enumeration has not yielded yet - none at all if the
\* first invocation completed.
C9_SameSetTwiceOnLists ==
    \A k \in Invocations :
        SameCollection(k) =>
            /\ hist[k + 1].entry = CollectionOf(k)
            /\ IF CollectionOf(k).kind = "gen"
               THEN /\ CalledIn(k + 1) \subseteq
                          {CollectionOf(k).items[i] :
                              i \in (hist[k + 1].entrypos + 1) .. Len(CollectionOf(k).items)}
                    /\ hist[k + 1].entrypos = hist[k].entrypos + Visited(k)
                    /\ Completed(k) => CalledIn(k + 1) = {}
               ELSE CallSeq(k) = CallSeq(k + 1)

\* a list iterated twice, with the same non-empty set initialised both times
C9_Witness ==
    /\ Len(hist) = 2
    /\ modules.kind = "list"
    /\ hist[1].entry = modules
    /\ CalledIn(1) # {}
    /\ CalledIn(1) = CalledIn(2)

(***************************************************************************)
(* C10                                                                     *)
(***************************************************************************)
TestSeq(k) == SelectSeq(tests, LAMBDA t : t[1] = k)

\* C10 as stated: for a module, no target after the first one found in its
\* class name is tested.
C10_StopsAtFirstMatch ==
    \A i \in DOMAIN tests :
        \A j \in 1 .. (tests[i][3] - 1) :
            ~SubstringOf(targets[j], ClassName(tests[i][2]))

\* C10 amended: for each module the loop gets to, every target of the list is
\* tested, in list order, whether or not an earlier one was found in the
\* class name; the initialiser is still called once for each such module
\* that matches.
C10_AllTargetsTested ==
    \A k \in Invocations :
        LET T == Len(targets)
        IN /\ Len(TestSeq(k)) = Visited(k) * T
           /\ \A i \in DOMAIN TestSeq(k) :
                 TestSeq(k)[i] = <<k, Yielded(k)[((i - 1) \div T) + 1], ((i - 1) % T) + 1>>
           /\ Len(CallSeq(k)) = Len(MatchedPrefix(k))

\* Conv2d under the default targets: 'Conv' is found, 'Linear' and 'Bilinear'
\* are tested all the same, and the initialiser is called once
C10_Witness ==
    /\ targets = DefaultTargets
    /\ Len(hist) >= 1
    /\ SubstringOf(targets[1], ClassName(1))
    /\ SubSeq(TestSeq(1), 1, 3) = <<<<1, 1, 1>>, <<1, 1, 2>>, <<1, 1, 3>>>>
    /\ CountCalls(1, 1) = 1

====
